---- MODULE Spec2Model ----
(***************************************************************************)
(* A model of the LaBench load-generation engine (package bench):          *)
(* Benchmark.Run and the goroutines it starts -- the workers, the ticker   *)
(* (sleeping or tight), the collector -- together with the channels,       *)
(* the WaitGroup and the Benchmark fields they share.                      *)
(*                                                                         *)
(* Every goroutine is a process with a program counter; one action is one  *)
(* step between two points at which the goroutine touches shared state     *)
(* (a channel, the WaitGroup, a Benchmark field, the clock).               *)
(***************************************************************************)
EXTENDS Integers, Sequences, FiniteSets, Bags, TLC

(***************************************************************************)
(* Bounds of the model.                                                    *)
(***************************************************************************)
\* the largest run duration, in clock units
MaxDuration == 7
\* the longest error text, in tokens
MaxTextLen == 3
\* the longest percentile list GenerateLatencyDistribution is given
MaxPercentiles == 2

(***************************************************************************)
(* Program constants.                                                      *)
(***************************************************************************)
\* capacity of the results and of the errors channel (Run)
ChanCap == 100
\* tickerFunc: the sleeping ticker needs expectedInterval >= 7*timerRes
SleepFactor == 7

(***************************************************************************)
(* Inputs.                                                                 *)
(***************************************************************************)
\* the connections argument of NewBenchmark
ConnectionCounts == {0, 1, 2}
\* b.expectedInterval, in clock units
Intervals == {7}
\* b.duration: NewBenchmark stores whatever it is given, zero included
Durations == {0, MaxDuration}
\* b.baseLatency.Nanoseconds()
BaseLatencies == {0, 1}
\* what detectOsTimerResolution returns (always > 0)
TimerResolutions == {1, 2}
\* how far the clock moves at a time
ClockJumps == {7}
\* the tight ticker under a clock of uneven readings: the interval, and how
\* far the clock moves between two readings
TightInterval == 3
TightClockJumps == {2, 4, 7}
\* what time.Since(before).Nanoseconds() yields in the worker; the source
\* notes that the measurement is sometimes negative
Latencies == {-1, 0, 2}

\* Error texts are sequences of tokens; the literal text the normalizer's
\* regular expression looks for is one token, a digit is one token.
ExpectedGot == "Expected 200-response, but got "
Digits == {"0", "3", "5"}
Err503 == <<ExpectedGot, "5", "0", "3">>
ErrRefused == <<"connection refused">>
ErrTexts == {Err503, ErrRefused}
\* the errors Request(), Setup() and Teardown() return
RequestErrors == {Err503}
SetupErrors == {ErrRefused}
TeardownErrors == {ErrRefused}
\* a nil error
Nil == <<>>
\* the error texts b.errors can hold at summary time: every text of up to
\* MaxTextLen tokens, each counted up to twice
TextTokens == {ExpectedGot, "0", "5", "connection refused"}
Texts == UNION {[1 .. n -> TextTokens] : n \in 1 .. MaxTextLen}
ErrorCounts == {1, 2}

\* A percentile is a number of thousandths of a percent: 99.999 is 99999.
PercentileUnit == 1000
\* bench.Logarithmic, the default percentiles
Logarithmic ==
    <<0, 10000, 20000, 30000, 40000, 50000, 55000, 60000, 65000, 70000, 75000, 80000,
      85000, 90000, 92500, 95000, 97500, 98000, 99000, 99500, 99750, 99900, 99950,
      99990, 99999, 100000>>
\* the percentiles a caller passes: nil, or a list (in any order) of these
PercentileValues == {0, 50000, 99000, 100000}
PercentileLists ==
    {[isNil |-> TRUE, elems |-> <<>>]} \cup
    {[isNil |-> FALSE, elems |-> l] :
        l \in UNION {[1 .. n -> PercentileValues] : n \in 0 .. MaxPercentiles}}
\* the values in the histogram of the Summary the distribution is made of
SampleLists == UNION {[1 .. n -> {0, 2}] : n \in 0 .. 2}
\* the header line of the distribution file
Header == "Value    Percentile    TotalCount    1/(1-Percentile)\n\n"

\* an empty timer channel
None == -1
NoSummary == [none |-> TRUE]
\* GenerateLatencyDistribution was not called
NoFile == [none |-> TRUE]
\* summarize and String() were not called
NoTable == [inserted |-> <<>>, printed |-> FALSE, rows |-> <<>>]

VARIABLES
    cfg,              \* the immutable Benchmark fields set by NewBenchmark, and Run's forceTightTicker
    now,              \* the clock (time.Now)
    panicked,         \* log.Panic was called: the process is gone
    \* ---- Benchmark fields
    successHistogram, \* b.successHistogram: the bag of recorded values
    errors,           \* b.errors: error text -> count
    successTotal, errorTotal, timelySends, lateSends,   \* merged by the workers
    elapsed, timelyTicks, missedTicks,                  \* written by the ticker
    \* ---- Run's locals
    tickerClosed,     \* close(ticker) happened (the tick channel is unbuffered)
    results,          \* the results channel's buffer
    errorsCh,         \* the errors channel's buffer
    doneClosed,       \* close(done) happened
    stopCollector,    \* close(stopCollector) happened
    wg,               \* the WaitGroup's counter
    runPc, summary,   \* Run's position and its return value
    distribution,     \* what GenerateLatencyDistribution was called with, returned and wrote
    errorTable,       \* the order in which summarize inserted the keys of Summary.Errors
                      \* (a Go map does not keep it), and the error table String() built
    \* ---- workers
    workerPc, local,  \* position and local variables of each worker
    calls,            \* per worker: the indices of its returned GetRequester calls,
                      \* and how often each Requester method was called
    teardownLogged,   \* number of "Failure in Teardown" log lines
    \* ---- ticker
    tickerPc, tk,     \* position and local variables of the ticker
    generated,        \* how many ticks the ticker has generated
    inCh, nextTick,   \* time.Tick's channel (capacity 1) and its next firing time
    \* ---- collector
    collectorPc

vars == <<cfg, now, panicked, successHistogram, errors, successTotal, errorTotal,
          timelySends, lateSends, elapsed, timelyTicks, missedTicks,
          tickerClosed, results, errorsCh, doneClosed, stopCollector, wg,
          runPc, summary, distribution, errorTable, workerPc, local, calls,
          teardownLogged,
          tickerPc, tk, generated, inCh, nextTick, collectorPc>>

benchVars == <<successHistogram, errors, successTotal, errorTotal, timelySends,
               lateSends, elapsed, timelyTicks, missedTicks>>
workerVars == <<workerPc, local, calls, teardownLogged>>
tickerVars == <<tickerPc, tk, generated, inCh, nextTick>>
mergedVars == <<successTotal, errorTotal, timelySends, lateSends>>
tickerOutVars == <<elapsed, timelyTicks, missedTicks>>
runVars == <<runPc, summary, distribution, errorTable>>

Workers == 0 .. (cfg.connections - 1)

Max(a, b) == IF a >= b THEN a ELSE b

(***************************************************************************)
(* NewBenchmark: connections == 0 is coerced to 1; the other arguments are *)
(* stored as given.                                                        *)
(***************************************************************************)
NewBenchmark(connections, duration, baseLatency, expectedInterval) ==
    [connections      |-> IF connections = 0 THEN 1 ELSE connections,
     duration         |-> duration,
     baseLatency      |-> baseLatency,
     expectedInterval |-> expectedInterval]

\* the state when Run is called on the Benchmark config
InitOf(config) ==
    /\ cfg = config
    /\ now = 0
    /\ panicked = FALSE
    /\ successHistogram = EmptyBag
    /\ errors = <<>>
    /\ successTotal = 0 /\ errorTotal = 0 /\ timelySends = 0 /\ lateSends = 0
    /\ elapsed = 0 /\ timelyTicks = 0 /\ missedTicks = 0
    /\ tickerClosed = FALSE
    /\ results = <<>>
    /\ errorsCh = <<>>
    /\ doneClosed = FALSE
    /\ stopCollector = FALSE
    /\ wg = 0
    /\ runPc = "start"
    /\ summary = NoSummary
    /\ distribution = NoFile
    /\ errorTable = NoTable
    /\ workerPc = [w \in Workers |-> "unstarted"]
    /\ local = [w \in Workers |-> [requester |-> None, tick |-> 0, lateSends |-> 0,
                                   timelySends |-> 0, errorTotal |-> 0, successTotal |-> 0]]
    /\ calls = [w \in Workers |-> [GetRequester |-> <<>>, Setup |-> 0, Request |-> 0,
                                   Teardown |-> 0]]
    /\ teardownLogged = 0
    /\ tickerPc = "unstarted"
    /\ tk = [start |-> 0, lastTick |-> 0, thisTick |-> 0, timelyTicks |-> 0,
             missedTicks |-> 0]
    /\ generated = 0
    /\ inCh = None
    /\ nextTick = None
    /\ collectorPc = "unstarted"

Init ==
    \E c \in ConnectionCounts, d \in Durations, bl \in BaseLatencies,
       ei \in Intervals, ft \in BOOLEAN, tr \in TimerResolutions :
       InitOf(NewBenchmark(c, d, bl, ei) @@ [forceTightTicker |-> ft, timerRes |-> tr])

(***************************************************************************)
(* Benchmark.Run, the driver.                                              *)
(***************************************************************************)
\* wg.Add(connections) and the go statements: every goroutine becomes
\* runnable.  Starting a goroutine has no other effect, so the loop is one step.
RunStart ==
    /\ ~panicked
    /\ runPc = "start"
    /\ wg' = cfg.connections
    /\ workerPc' = [w \in Workers |-> "GetRequester"]
    /\ tickerPc' = "tickerFunc"
    /\ collectorPc' = "running"
    /\ runPc' = "waitWorkers"
    /\ UNCHANGED <<cfg, now, panicked, benchVars, tickerClosed, results, errorsCh,
                   doneClosed, stopCollector, summary, distribution, errorTable, local, calls,
                   teardownLogged,
                   tk, generated, inCh, nextTick>>

\* Run goes on from its first wg.Wait(), once `waited` holds, with
\* wg.Add(1) and close(stopCollector)
RunStopCollectorStep(waited) ==
    /\ ~panicked
    /\ runPc = "waitWorkers"
    /\ waited
    /\ wg' = wg + 1
    /\ stopCollector' = TRUE
    /\ runPc' = "waitCollector"
    /\ UNCHANGED <<cfg, now, panicked, benchVars, tickerClosed, results, errorsCh,
                   doneClosed, summary, distribution, errorTable, workerVars, tickerVars,
                   collectorPc>>

\* a Run that stops the collector without waiting for the workers
RunStopCollectorNoWait == RunStopCollectorStep(TRUE)

\* the first wg.Wait() returns when the counter is 0; wg.Add(1); close(stopCollector)
RunStopCollector == RunStopCollectorStep(wg = 0)

\* Run goes on from its second wg.Wait(), once `waited` holds, to the
\* prints and summarize
RunCollectorJoinedStep(waited) ==
    /\ ~panicked
    /\ runPc = "waitCollector"
    /\ waited
    /\ runPc' = "summarize"
    /\ UNCHANGED <<cfg, now, panicked, benchVars, tickerClosed, results, errorsCh,
                   doneClosed, stopCollector, wg, summary, distribution, errorTable, workerVars,
                   tickerVars, collectorPc>>

\* a Run that summarizes without waiting for the collector
RunCollectorNotJoined == RunCollectorJoinedStep(TRUE)

\* the second wg.Wait() returns when the counter is 0
RunCollectorJoined == RunCollectorJoinedStep(wg = 0)

(***************************************************************************)
(* summarize.                                                              *)
(***************************************************************************)
IsDigit(tok) == tok \in Digits

\* the end of the run of digits of text that starts at position i
RECURSIVE DigitsEnd(_, _)
DigitsEnd(text, i) ==
    IF i + 1 <= Len(text) /\ IsDigit(text[i + 1]) THEN DigitsEnd(text, i + 1) ELSE i

\* r.FindStringSubmatch(errorText) for `Expected 200-response, but got (\d+)`:
\* the leftmost match and its group, or <<>> (nil) when nothing matches
FindStringSubmatch(text) ==
    LET starts == {i \in 1 .. Len(text) - 1 : text[i] = ExpectedGot /\ IsDigit(text[i + 1])}
    IN  IF starts = {} THEN <<>>
        ELSE LET i == CHOOSE j \in starts : \A k \in starts : j <= k
                 e == DigitsEnd(text, i + 1)
             IN  <<SubSeq(text, i, e), SubSeq(text, i + 1, e)>>

\* a normalizer that takes the whole match for the error code
ErrorKeyWholeMatch(errorText) ==
    LET errorCodeMatches == FindStringSubmatch(errorText)
    IN  IF Len(errorCodeMatches) > 1 THEN errorCodeMatches[1] ELSE errorText

\* the key summarize files an error text under
ErrorKey(errorText) ==
    LET errorCodeMatches == FindStringSubmatch(errorText)
    IN  IF Len(errorCodeMatches) > 1 THEN errorCodeMatches[2] ELSE errorText

\* the maps the loop over b.errors can build: formattedErrors[key] = count
\* is an assignment and Go ranges over a map in no fixed order, so a key
\* keeps the count of whichever of its error texts comes last
FormattedErrors ==
    LET keys == {ErrorKey(e) : e \in DOMAIN errors}
    IN  {f \in [keys -> {errors[e] : e \in DOMAIN errors}] :
            \A k \in keys : \E e \in DOMAIN errors : ErrorKey(e) = k /\ f[k] = errors[e]}

\* the orders in which a loop can come by the elements of S
Orders(S) ==
    {order \in [1 .. Cardinality(S) -> S] :
        \A i, j \in 1 .. Cardinality(S) : i # j => order[i] # order[j]}

\* float64(part) * 100 / float64(whole): a fraction, or NaN for 0/0
Ratio(part, whole) ==
    IF whole = 0 THEN "NaN" ELSE <<part * 100, whole>>

Summarize(formattedErrors) ==
    [SuccessTotal     |-> successTotal,
     ErrorTotal       |-> errorTotal,
     TimeElapsed      |-> elapsed,
     SuccessHistogram |-> successHistogram,
     Connections      |-> cfg.connections,
     Errors           |-> formattedErrors,
     TicksTimely      |-> timelyTicks,
     TicksTimelyRatio |-> Ratio(timelyTicks, timelyTicks + missedTicks),
     SendsTimely      |-> timelySends,
     SendsTimelyRatio |-> Ratio(timelySends, timelySends + lateSends)]

\* summary := b.summarize(outputJson); return summary, nil
RunSummarize ==
    /\ ~panicked
    /\ runPc = "summarize"
    /\ \E f \in FormattedErrors : \E order \in Orders(DOMAIN f) :
          /\ summary' = Summarize(f)
          /\ errorTable' = [inserted |-> order, printed |-> FALSE, rows |-> <<>>]
    /\ runPc' = "returned"
    /\ UNCHANGED <<cfg, now, panicked, benchVars, tickerClosed, results, errorsCh,
                   doneClosed, stopCollector, wg, distribution, workerVars, tickerVars,
                   collectorPc>>

(***************************************************************************)
(* Benchmark.worker, and the goroutine Run wraps it in.                    *)
(***************************************************************************)
\* The call b.factory.GetRequester(i) of worker w's goroutine returns, and
\* b.worker starts with the Requester built for index i.
GetRequesterStep(w, i) ==
    /\ ~panicked
    /\ workerPc[w] = "inGetRequester"
    /\ calls' = [calls EXCEPT ![w].GetRequester = Append(@, i)]
    /\ local' = [local EXCEPT ![w].requester = i]
    /\ workerPc' = [workerPc EXCEPT ![w] = "Setup"]
    /\ UNCHANGED <<cfg, now, panicked, benchVars, tickerClosed, results, errorsCh,
                   doneClosed, stopCollector, wg, runVars, teardownLogged,
                   tickerVars, collectorPc>>

\* The goroutine of worker w, once scheduled, enters the factory's
\* GetRequester: from here to its return the call reads and writes the
\* factory's fields (w.expandedHeaders, w.Body) with no lock held.
GetRequesterCall(w) ==
    /\ ~panicked
    /\ workerPc[w] = "GetRequester"
    /\ workerPc' = [workerPc EXCEPT ![w] = "inGetRequester"]
    /\ UNCHANGED <<cfg, now, panicked, benchVars, tickerClosed, results, errorsCh,
                   doneClosed, stopCollector, wg, runVars, local, calls, teardownLogged,
                   tickerVars, collectorPc>>

\* a goroutine that reads the loop's own variable, which the loop has
\* moved on to its last index
GetRequesterLoopVariable(w) == GetRequesterStep(w, cfg.connections - 1)

\* b.factory.GetRequester(i), evaluated inside the worker's goroutine with
\* the goroutine's own copy of the loop index (i := i)
GetRequester(w) == GetRequesterStep(w, w)

\* maybePanic(requester.Setup()): an error panics, otherwise the worker
\* blocks in `for tick := range ticker`
WorkerSetup(w) ==
    /\ ~panicked
    /\ workerPc[w] = "Setup"
    /\ calls' = [calls EXCEPT ![w].Setup = @ + 1]
    /\ \E err \in SetupErrors \cup {Nil} :
          IF err # Nil
          THEN panicked' = TRUE /\ UNCHANGED workerPc
          ELSE UNCHANGED panicked /\ workerPc' = [workerPc EXCEPT ![w] = "range"]
    /\ UNCHANGED <<cfg, now, benchVars, tickerClosed, results, errorsCh,
                   doneClosed, stopCollector, wg, runVars, local, teardownLogged,
                   tickerVars, collectorPc>>

\* the worker is blocked receiving from the tick channel
Receiving(w) == workerPc[w] = "range"

\* what receiving a tick does to the worker (the other half of a send)
Receive(w, tick) ==
    /\ workerPc' = [workerPc EXCEPT ![w] = "tick"]
    /\ local' = [local EXCEPT ![w].tick = tick]

\* The step of a worker that holds a tick: before := time.Now(), the
\* late/timely classification, and the call of requester.Request(); the
\* worker goes on at `next`.
SendStep(w, next) ==
    /\ ~panicked
    /\ workerPc[w] = "tick"
    /\ LET before == now
       IN  IF before - local[w].tick >= cfg.expectedInterval
           THEN local' = [local EXCEPT ![w].lateSends = @ + 1, ![w].tick = 0]
           ELSE local' = [local EXCEPT ![w].timelySends = @ + 1, ![w].tick = 0]
    /\ calls' = [calls EXCEPT ![w].Request = @ + 1]
    /\ workerPc' = [workerPc EXCEPT ![w] = next]
    /\ UNCHANGED <<cfg, now, panicked, benchVars, tickerClosed, results, errorsCh,
                   doneClosed, stopCollector, wg, runVars, teardownLogged,
                   tickerVars, collectorPc>>

\* a worker that issues its request and awaits the next tick at once
WorkerSendOpenLoop(w) == SendStep(w, "range")

\* the worker is inside requester.Request() until it returns
WorkerSend(w) == SendStep(w, "Request")

\* The step of a worker whose Request() has returned err and whose
\* time.Since(before) has yielded measured: an error is sent on the errors
\* channel and `errorCount` is added to the worker's errorTotal, a latency is
\* clamped at 0, sent on the results channel and counted; a send blocks
\* while its channel is full.  The worker goes on at `afterError` or "range".
SampleStep(w, err, measured, errorCount, afterError) ==
    /\ ~panicked
    /\ workerPc[w] = "Request"
    /\ IF err # Nil
       THEN /\ Len(errorsCh) < ChanCap
            /\ errorsCh' = Append(errorsCh, err)
            /\ local' = [local EXCEPT ![w].errorTotal = @ + errorCount]
            /\ workerPc' = [workerPc EXCEPT ![w] = afterError]
            /\ UNCHANGED results
       ELSE LET latency == IF measured < 0 THEN 0 ELSE measured
            IN  /\ Len(results) < ChanCap
                /\ results' = Append(results, latency)
                /\ local' = [local EXCEPT ![w].successTotal = @ + 1]
                /\ workerPc' = [workerPc EXCEPT ![w] = "range"]
                /\ UNCHANGED errorsCh
    /\ UNCHANGED <<cfg, now, panicked, benchVars, tickerClosed,
                   doneClosed, stopCollector, wg, runVars, calls, teardownLogged,
                   tickerVars, collectorPc>>

\* a worker that sends a failure without counting it
WorkerSampleUncounted(w, err, measured) == SampleStep(w, err, measured, 0, "range")

\* a worker that gives up after a failed request
WorkerSampleGivesUp(w, err, measured) == SampleStep(w, err, measured, 1, "Teardown")

\* the rest of the loop body after Request(): errorTotal++ and errors <- err,
\* or results <- latency and successTotal++; then the next tick is awaited
WorkerSample(w, err, measured) == SampleStep(w, err, measured, 1, "range")

\* The worker leaves its loop, when `closed` holds, and adds its four
\* counters to the Benchmark's with atomic.AddUint64.
MergeStep(w, closed) ==
    /\ ~panicked
    /\ Receiving(w)
    /\ closed
    /\ lateSends' = lateSends + local[w].lateSends
    /\ timelySends' = timelySends + local[w].timelySends
    /\ errorTotal' = errorTotal + local[w].errorTotal
    /\ successTotal' = successTotal + local[w].successTotal
    /\ workerPc' = [workerPc EXCEPT ![w] = "Teardown"]
    /\ UNCHANGED <<cfg, now, panicked, successHistogram, errors, tickerOutVars,
                   tickerClosed, results, errorsCh, doneClosed, stopCollector, wg,
                   runVars, local, calls, teardownLogged, tickerVars, collectorPc>>

\* a worker that does not wait for the tick channel to be closed
WorkerMergeEarly(w) == MergeStep(w, TRUE)

\* the range loop ends on the closed tick channel; the four atomic.AddUint64
WorkerMerge(w) == MergeStep(w, tickerClosed)

\* requester.Teardown(), its error logged; worker returns; wg.Done()
WorkerTeardown(w, err) ==
    /\ ~panicked
    /\ workerPc[w] = "Teardown"
    /\ calls' = [calls EXCEPT ![w].Teardown = @ + 1]
    /\ teardownLogged' = IF err # Nil THEN teardownLogged + 1 ELSE teardownLogged
    /\ wg' = wg - 1
    /\ workerPc' = [workerPc EXCEPT ![w] = "done"]
    /\ UNCHANGED <<cfg, now, panicked, benchVars, tickerClosed, results, errorsCh,
                   doneClosed, stopCollector, runVars, local, tickerVars, collectorPc>>

(***************************************************************************)
(* Benchmark.collectorFunc, and the goroutine Run wraps it in.             *)
(***************************************************************************)
\* hdrhistogram's RecordValue returns an error for a value it has no bucket
\* for: a negative one (the latencies of the model stay below the maximum)
RecordValueFails(v) == v < 0

\* case sample := <-results
CollectSample ==
    /\ ~panicked
    /\ collectorPc = "running"
    /\ results # <<>>
    /\ LET sample == Head(results)
           v == sample - cfg.baseLatency
       IN  IF RecordValueFails(v)
           THEN panicked' = TRUE /\ UNCHANGED successHistogram
           ELSE UNCHANGED panicked /\ successHistogram' = successHistogram (+) SetToBag({v})
    /\ results' = Tail(results)
    /\ UNCHANGED <<cfg, now, errors, mergedVars, tickerOutVars, tickerClosed, errorsCh,
                   doneClosed, stopCollector, wg, runVars, workerVars, tickerVars,
                   collectorPc>>

\* case err := <-errors
CollectError ==
    /\ ~panicked
    /\ collectorPc = "running"
    /\ errorsCh # <<>>
    /\ LET text == Head(errorsCh)
       IN  errors' = IF text \in DOMAIN errors
                     THEN [errors EXCEPT ![text] = @ + 1]
                     ELSE errors @@ (text :> 1)
    /\ errorsCh' = Tail(errorsCh)
    /\ UNCHANGED <<cfg, now, panicked, successHistogram, mergedVars, tickerOutVars,
                   tickerClosed, results, doneClosed, stopCollector, wg, runVars,
                   workerVars, tickerVars, collectorPc>>

\* case <-doneCh: return; wg.Done().  select takes any ready case, so this
\* one can be taken while samples are still buffered
CollectorStop ==
    /\ ~panicked
    /\ collectorPc = "running"
    /\ stopCollector
    /\ collectorPc' = "done"
    /\ wg' = wg - 1
    /\ UNCHANGED <<cfg, now, panicked, benchVars, tickerClosed, results, errorsCh,
                   doneClosed, stopCollector, runVars, workerVars, tickerVars>>

(***************************************************************************)
(* Benchmark.tickerFunc, sleepingTicker and tightTicker.                   *)
(***************************************************************************)
\* a tickerFunc that does not look at forceTightTicker
UseSleepingTickerUnforced ==
    cfg.expectedInterval >= SleepFactor * cfg.timerRes

\* the strategy tickerFunc chooses
UseSleepingTicker ==
    ~cfg.forceTightTicker /\ cfg.expectedInterval >= SleepFactor * cfg.timerRes

\* A non-blocking send of t on the unbuffered tick channel: it succeeds iff
\* a worker is receiving; `missed` is what a tick nobody takes adds to missedTicks.
OfferStep(t, missed) ==
    IF \E w \in Workers : Receiving(w)
    THEN /\ \E w \in Workers : Receiving(w) /\ Receive(w, t)
         /\ tk' = [tk EXCEPT !.timelyTicks = @ + 1]
    ELSE /\ tk' = [tk EXCEPT !.missedTicks = @ + missed]
         /\ UNCHANGED <<workerPc, local>>

\* a ticker that drops a tick without counting it
OfferTickUncounted(t) == OfferStep(t, 0)

\* a ticker that counts every tick as timely, received or not
OfferTickAlwaysTimely(t) ==
    /\ tk' = [tk EXCEPT !.timelyTicks = @ + 1]
    /\ IF \E w \in Workers : Receiving(w)
       THEN \E w \in Workers : Receiving(w) /\ Receive(w, t)
       ELSE UNCHANGED <<workerPc, local>>

\* select { case outCh <- t: timelyTicks++; default: missedTicks++ }
OfferTick(t) == OfferStep(t, 1)

\* tickerFunc up to the first channel operation of the chosen ticker:
\* sleepingTicker creates its timers and reads start, tightTicker reads
\* start and sets lastTick
TickerFunc ==
    /\ ~panicked
    /\ tickerPc = "tickerFunc"
    /\ tk' = [tk EXCEPT !.start = now, !.lastTick = now]
    /\ IF UseSleepingTicker
       THEN /\ tickerPc' = "initialTick"
            /\ nextTick' = now + cfg.expectedInterval
       ELSE /\ tickerPc' = "tightSpin"
            /\ UNCHANGED nextTick
    /\ UNCHANGED <<cfg, now, panicked, benchVars, tickerClosed, results, errorsCh,
                   doneClosed, stopCollector, wg, runVars, workerVars, generated, inCh,
                   collectorPc>>

\* sleepingTicker: outCh <- start; timelyTicks++ (a blocking send)
SleepingInitialTick ==
    /\ ~panicked
    /\ tickerPc = "initialTick"
    /\ \E w \in Workers : Receiving(w) /\ Receive(w, tk.start)
    /\ generated' = generated + 1
    /\ tk' = [tk EXCEPT !.timelyTicks = @ + 1]
    /\ tickerPc' = "sleepLoop"
    /\ UNCHANGED <<cfg, now, panicked, benchVars, tickerClosed, results, errorsCh,
                   doneClosed, stopCollector, wg, runVars, calls, teardownLogged,
                   inCh, nextTick, collectorPc>>

\* sleepingTicker: case t := <-inCh, and the non-blocking send of t
SleepingTick ==
    /\ ~panicked
    /\ tickerPc = "sleepLoop"
    /\ inCh # None
    /\ generated' = generated + 1
    /\ OfferTick(inCh)
    /\ inCh' = None
    /\ UNCHANGED <<cfg, now, panicked, benchVars, tickerClosed, results, errorsCh,
                   doneClosed, stopCollector, wg, runVars, calls, teardownLogged,
                   tickerPc, nextTick, collectorPc>>

\* the channel of time.After(b.duration) is ready
CompletionReady == now >= tk.start + cfg.duration

\* sleepingTicker: case <-completion: close(outCh); break loop
SleepingCompletion ==
    /\ ~panicked
    /\ tickerPc = "sleepLoop"
    /\ CompletionReady
    /\ tickerClosed' = TRUE
    /\ tickerPc' = "closeDone"
    /\ UNCHANGED <<cfg, now, panicked, benchVars, results, errorsCh,
                   doneClosed, stopCollector, wg, runVars, workerVars, tk, generated,
                   inCh, nextTick, collectorPc>>

\* tightTicker's inner loop leaves with thisTick = now once a tick is due,
\* and lastTick becomes newLastTick
TightSpinStep(newLastTick) ==
    /\ ~panicked
    /\ tickerPc = "tightSpin"
    /\ now - tk.lastTick >= cfg.expectedInterval
    /\ tk' = [tk EXCEPT !.thisTick = now, !.lastTick = newLastTick]
    /\ generated' = generated + 1
    /\ tickerPc' = "tightSend"
    /\ UNCHANGED <<cfg, now, panicked, benchVars, tickerClosed, results, errorsCh,
                   doneClosed, stopCollector, wg, runVars, workerVars, inCh, nextTick,
                   collectorPc>>

\* a tight ticker that sets lastTick to the time it read
TightSpinToObservedTime == TightSpinStep(now)

\* thisTick = time.Now(); if thisTick.Sub(lastTick) >= expectedInterval
\* { lastTick = lastTick.Add(expectedInterval); break }
TightSpin == TightSpinStep(tk.lastTick + cfg.expectedInterval)

\* tightTicker: the non-blocking send of thisTick, then
\* if thisTick.Sub(start) > duration { close(outCh); break }
TightSend ==
    /\ ~panicked
    /\ tickerPc = "tightSend"
    /\ OfferTick(tk.thisTick)
    /\ UNCHANGED generated
    /\ IF tk.thisTick - tk.start > cfg.duration
       THEN tickerClosed' = TRUE /\ tickerPc' = "closeDone"
       ELSE UNCHANGED tickerClosed /\ tickerPc' = "tightSpin"
    /\ UNCHANGED <<cfg, now, panicked, benchVars, results, errorsCh,
                   doneClosed, stopCollector, wg, runVars, calls, teardownLogged,
                   inCh, nextTick, collectorPc>>

\* close(doneCh); b.elapsed = time.Since(start)
TickerElapsed ==
    /\ ~panicked
    /\ tickerPc = "closeDone"
    /\ doneClosed' = TRUE
    /\ elapsed' = now - tk.start
    /\ tickerPc' = "timelyTicks"
    /\ UNCHANGED <<cfg, now, panicked, successHistogram, errors, mergedVars,
                   timelyTicks, missedTicks, tickerClosed, results, errorsCh,
                   stopCollector, wg, runVars, workerVars, tk, generated, inCh, nextTick,
                   collectorPc>>

\* b.timelyTicks = timelyTicks
TickerTimelyTicks ==
    /\ ~panicked
    /\ tickerPc = "timelyTicks"
    /\ timelyTicks' = tk.timelyTicks
    /\ tickerPc' = "missedTicks"
    /\ UNCHANGED <<cfg, now, panicked, successHistogram, errors, mergedVars,
                   elapsed, missedTicks, tickerClosed, results, errorsCh, doneClosed,
                   stopCollector, wg, runVars, workerVars, tk, generated, inCh, nextTick,
                   collectorPc>>

\* b.missedTicks = missedTicks; the ticker returns
TickerMissedTicks ==
    /\ ~panicked
    /\ tickerPc = "missedTicks"
    /\ missedTicks' = tk.missedTicks
    /\ tickerPc' = "done"
    /\ UNCHANGED <<cfg, now, panicked, successHistogram, errors, mergedVars,
                   elapsed, timelyTicks, tickerClosed, results, errorsCh, doneClosed,
                   stopCollector, wg, runVars, workerVars, tk, generated, inCh, nextTick,
                   collectorPc>>

(***************************************************************************)
(* The clock and the runtime's timers.                                     *)
(***************************************************************************)
\* The ticker still waits for the clock: the sleeping ticker for its
\* completion timer, the tight ticker for a reading at which a tick is due
\* and the run is over.
ClockAwaited ==
    /\ tickerPc \notin {"unstarted", "tickerFunc"}
    /\ IF UseSleepingTicker
       THEN ~CompletionReady
       ELSE /\ tk.thisTick - tk.start <= cfg.duration
            /\ ~(now - tk.lastTick >= cfg.expectedInterval /\ now - tk.start > cfg.duration)

\* Time passes by d, as long as the ticker waits for it.  When time.Tick's
\* timer is due it puts its time into inCh unless inCh still holds an
\* unread tick.
Clock(d) ==
    /\ ~panicked
    /\ ClockAwaited
    /\ now' = now + d
    /\ IF nextTick # None /\ nextTick <= now'
       THEN /\ inCh' = IF inCh = None THEN nextTick ELSE inCh
            /\ nextTick' = nextTick
                  + cfg.expectedInterval * ((now' - nextTick) \div cfg.expectedInterval + 1)
       ELSE UNCHANGED <<inCh, nextTick>>
    /\ UNCHANGED <<cfg, panicked, benchVars, tickerClosed, results, errorsCh,
                   doneClosed, stopCollector, wg, runVars, workerVars, tickerPc, tk,
                   generated, collectorPc>>

(***************************************************************************)
(* The program.                                                            *)
(***************************************************************************)
Run == RunStart \/ RunStopCollector \/ RunCollectorJoined \/ RunSummarize

Worker(w) ==
    \/ GetRequesterCall(w)
    \/ GetRequester(w)
    \/ WorkerSetup(w)
    \/ WorkerSend(w)
    \/ \E err \in RequestErrors \cup {Nil}, measured \in Latencies : WorkerSample(w, err, measured)
    \/ WorkerMerge(w)
    \/ \E err \in TeardownErrors \cup {Nil} : WorkerTeardown(w, err)

Ticker ==
    \/ TickerFunc
    \/ SleepingInitialTick
    \/ SleepingTick
    \/ SleepingCompletion
    \/ TightSpin
    \/ TightSend
    \/ TickerElapsed
    \/ TickerTimelyTicks
    \/ TickerMissedTicks

Collector == CollectSample \/ CollectError \/ CollectorStop

Time == \E d \in ClockJumps : Clock(d)

Next == Run \/ (\E w \in Workers : Worker(w)) \/ Ticker \/ Collector \/ Time

Spec == Init /\ [][Next]_vars

(***************************************************************************)
(* summarize on its own: Run at the call of summarize, after a run of one  *)
(* worker on the tight ticker, at one tick per clock unit, in which the    *)
(* collector has counted the failures errs (text -> count) and recorded    *)
(* the samples; every other tick of the run was missed.                    *)
(***************************************************************************)
RECURSIVE SumOver(_, _)
\* the sum of f[x] over the x in S
SumOver(f, S) ==
    IF S = {} THEN 0
    ELSE LET x == CHOOSE y \in S : TRUE IN f[x] + SumOver(f, S \ {x})

RECURSIVE SeqToBag(_)
SeqToBag(seq) ==
    IF seq = <<>> THEN EmptyBag ELSE SetToBag({Head(seq)}) (+) SeqToBag(Tail(seq))

AfterRun(errs, samples) ==
    LET failed == SumOver(errs, DOMAIN errs)
        sent == failed + Len(samples)
        ticks == MaxDuration + 1
    IN  /\ cfg = NewBenchmark(1, MaxDuration, 0, 1) @@ [forceTightTicker |-> TRUE, timerRes |-> 1]
        /\ now = ticks
        /\ panicked = FALSE
        /\ successHistogram = SeqToBag(samples)
        /\ errors = errs
        /\ successTotal = Len(samples) /\ errorTotal = failed
        /\ timelySends = sent /\ lateSends = 0
        /\ elapsed = ticks /\ timelyTicks = sent /\ missedTicks = ticks - sent
        /\ tickerClosed = TRUE
        /\ results = <<>>
        /\ errorsCh = <<>>
        /\ doneClosed = TRUE
        /\ stopCollector = TRUE
        /\ wg = 0
        /\ runPc = "summarize"
        /\ summary = NoSummary
        /\ distribution = NoFile
        /\ errorTable = NoTable
        /\ workerPc = [w \in {0} |-> "done"]
        /\ local = [w \in {0} |-> [requester |-> 0, tick |-> 0, lateSends |-> 0,
                                   timelySends |-> sent, errorTotal |-> failed,
                                   successTotal |-> Len(samples)]]
        /\ calls = [w \in {0} |-> [GetRequester |-> <<0>>, Setup |-> 1, Request |-> sent,
                                   Teardown |-> 1]]
        /\ teardownLogged = 0
        /\ tickerPc = "done"
        /\ tk = [start |-> 0, lastTick |-> ticks, thisTick |-> ticks, timelyTicks |-> sent,
                 missedTicks |-> ticks - sent]
        /\ generated = ticks
        /\ inCh = None
        /\ nextTick = None
        /\ collectorPc = "done"

\* b.errors holds one or two of the texts
SummarizeInit ==
    \E e1 \in Texts, e2 \in Texts, c1 \in ErrorCounts, c2 \in ErrorCounts :
        AfterRun((e1 :> c1) @@ (e2 :> c2), <<>>)

SummarizeSpec == SummarizeInit /\ [][RunSummarize]_vars

(***************************************************************************)
(* Run with one worker on the forced tight ticker, at an interval shorter  *)
(* than the run, under a clock whose readings are unevenly apart.          *)
(***************************************************************************)
TightInit ==
    \E d \in Durations, tr \in TimerResolutions :
       InitOf(NewBenchmark(1, d, 0, TightInterval)
                 @@ [forceTightTicker |-> TRUE, timerRes |-> tr])

TightTicker ==
    \/ TickerFunc
    \/ TightSpin
    \/ TightSend
    \/ TickerElapsed
    \/ TickerTimelyTicks
    \/ TickerMissedTicks

TightTime == \E d \in TightClockJumps : Clock(d)

TightNext == Run \/ (\E w \in Workers : Worker(w)) \/ TightTicker \/ Collector \/ TightTime

TightSpec == TightInit /\ [][TightNext]_vars

(***************************************************************************)
(* Summary.GenerateLatencyDistribution and generateLatencyDistribution.    *)
(***************************************************************************)
\* the first n decimals of r/den (r < den), as a number of n digits
RECURSIVE Decimals(_, _, _)
Decimals(r, den, n) ==
    IF n = 0 THEN 0
    ELSE ((r * 10) \div den) * 10 ^ (n - 1) + Decimals((r * 10) % den, den, n - 1)

\* what is left of r/den after its first n decimals
RECURSIVE Remainder(_, _, _)
Remainder(r, den, n) ==
    IF n = 0 THEN r ELSE Remainder((r * 10) % den, den, n - 1)

\* fmt's %f of num/den (num >= 0, den >= 0): the integer part and the six
\* decimals, rounded; +Inf for x/0
FormatF(num, den) ==
    IF den = 0 THEN "+Inf"
    ELSE LET whole == num \div den
             decimals == Decimals(num % den, den, 6)
                            + (IF 2 * Remainder(num % den, den, 6) >= den THEN 1 ELSE 0)
         IN  IF decimals = 1000000 THEN <<whole + 1, 0>> ELSE <<whole, decimals>>

\* hdrhistogram's ValueAtQuantile(q): the first value, from 0 upwards, at
\* which the count of the values up to it reaches q percent of the total,
\* rounded (values in units of the histogram's resolution)
ValueAtQuantile(histogram, q) ==
    LET values == BagToSet(histogram)
        totalCount == BagCardinality(histogram)
        capped == IF q > 100 * PercentileUnit THEN 100 * PercentileUnit ELSE q
        countAtPercentile ==
            (2 * capped * totalCount + 100 * PercentileUnit) \div (200 * PercentileUnit)
        total(v) == SumOver([x \in values |-> IF x <= v THEN CopiesIn(x, histogram) ELSE 0],
                            values)
        reached == {v \in values \cup {0} : total(v) >= countAtPercentile}
    IN  IF reached = {} THEN 0 ELSE CHOOSE v \in reached : \A u \in reached : v <= u

\* The row written for one percentile: Value, Percentile, TotalCount and
\* 1/(1-Percentile), where `shown` is the percentile as the row shows it
\* (a fraction num/den)
RowStep(histogram, percentile, shown) ==
    [Value      |-> FormatF(ValueAtQuantile(histogram, percentile), 1000000),
     Percentile |-> FormatF(shown[1], shown[2]),
     TotalCount |-> 0,
     Inverse    |-> FormatF(100 * PercentileUnit, 100 * PercentileUnit - percentile)]

\* a row that shows the percentile as given, not divided by 100
RowOfRawPercentile(histogram, percentile) ==
    RowStep(histogram, percentile, <<percentile, PercentileUnit>>)

\* value := float64(histogram.ValueAtQuantile(percentile)) / 1000000 and the
\* Sprintf of value, percentile/100, 0, 1/(1-(percentile/100))
Row(histogram, percentile) ==
    RowStep(histogram, percentile, <<percentile, 100 * PercentileUnit>>)

\* s.GenerateLatencyDistribution(percentiles, file), on the Summary Run
\* returned.  failAt is the file operation that fails, if one does: 0 is
\* os.Create, k the WriteString of the k-th row (the error of the header's
\* WriteString is not looked at, and the header is taken to be written).
GenerateLatencyDistribution(percentiles, failAt) ==
    /\ ~panicked
    /\ runPc = "returned"
    /\ distribution = NoFile
    /\ LET used == IF percentiles.isNil THEN Logarithmic ELSE percentiles.elems
           failed == failAt # None /\ failAt <= Len(used)
           written == IF failed THEN failAt - 1 ELSE Len(used)
       IN  distribution' =
              [percentiles |-> percentiles,
               failed      |-> failed,
               err         |-> IF failed THEN <<"i/o error">> ELSE Nil,
               file        |-> IF failAt = 0 THEN <<>>
                               ELSE <<Header>> \o [i \in 1 .. written |->
                                                     Row(summary.SuccessHistogram, used[i])]]
    /\ UNCHANGED <<cfg, now, panicked, benchVars, tickerClosed, results, errorsCh,
                   doneClosed, stopCollector, wg, runPc, summary, errorTable, workerVars,
                   tickerVars, collectorPc>>

\* the Summary's histogram holds up to two samples
DistributionInit == \E samples \in SampleLists : AfterRun(<<>>, samples)

DistributionNext ==
    \/ RunSummarize
    \/ \E percentiles \in PercentileLists, failAt \in {None} \cup (0 .. MaxPercentiles) :
          GenerateLatencyDistribution(percentiles, failAt)

DistributionSpec == DistributionInit /\ [][DistributionNext]_vars

(***************************************************************************)
(* Summary.String: the error table.                                        *)
(***************************************************************************)
\* strconv.FormatFloat(num/den, 'f', 2, 64) (num >= 0, den >= 0): the integer
\* part and the two decimals, rounded; +Inf for x/0
FormatFloat2(num, den) ==
    IF den = 0 THEN "+Inf"
    ELSE LET whole == num \div den
             decimals == Decimals(num % den, den, 2)
                            + (IF 2 * Remainder(num % den, den, 2) >= den THEN 1 ELSE 0)
         IN  IF decimals = 100 THEN <<whole + 1, 0>> ELSE <<whole, decimals>>

\* ErrorList.Less under sort.Reverse: the element at i goes before the one
\* at j exactly when its Count is greater
ReverseLess(el, i, j) == el[j].Count < el[i].Count

\* What sort.Sort(sort.Reverse(el)) can make of the list filled from the
\* map s.Errors: range yields the entries in no fixed order and sort.Sort
\* moves an element only past elements it is not Less than, so every
\* arrangement in which no element is Less than one before it can come out.
SortedErrorLists ==
    {el \in {[i \in 1 .. Len(order) |->
                 [ErrorCode |-> order[i], Count |-> summary.Errors[order[i]]]] :
              order \in Orders(DOMAIN summary.Errors)} :
        \A i, j \in 1 .. Len(el) : i < j => ~ReverseLess(el, j, i)}

\* s.String(), on the Summary Run returned: the rows appended to errorTable
SummaryString ==
    /\ ~panicked
    /\ runPc = "returned"
    /\ ~errorTable.printed
    /\ LET requestTotal == summary.SuccessTotal + summary.ErrorTotal
       IN  \E el \in SortedErrorLists :
              errorTable' =
                 [errorTable EXCEPT
                    !.printed = TRUE,
                    !.rows = [i \in 1 .. Len(el) |->
                                [ErrorCode  |-> el[i].ErrorCode,
                                 Count      |-> el[i].Count,
                                 Percentage |-> FormatFloat2(el[i].Count * 100, requestTotal)]]]
    /\ UNCHANGED <<cfg, now, panicked, benchVars, tickerClosed, results, errorsCh,
                   doneClosed, stopCollector, wg, runPc, summary, distribution, workerVars,
                   tickerVars, collectorPc>>

\* b.errors holds up to three of these texts, each counted up to twice
StringTexts == {Err503, ErrRefused, <<"0">>}
StringInit ==
    \E e1 \in StringTexts, e2 \in StringTexts, e3 \in StringTexts,
       c1 \in ErrorCounts, c2 \in ErrorCounts, c3 \in ErrorCounts :
        AfterRun((e1 :> c1) @@ (e2 :> c2) @@ (e3 :> c3), <<>>)

StringNext == RunSummarize \/ SummaryString

StringSpec == StringInit /\ [][StringNext]_vars

\* The Go scheduler runs every runnable goroutine, and time passes.
LiveSpec ==
    /\ Spec
    /\ WF_vars(Run)
    /\ WF_vars(\E w \in Workers : Worker(w))
    /\ WF_vars(Ticker)
    /\ WF_vars(Collector)
    /\ WF_vars(Time)

(***************************************************************************)
(* Properties.                                                             *)
(***************************************************************************)
\* the number of Request() calls of all workers
RequestCalls == SumOver([w \in Workers |-> calls[w].Request], Workers)

AllWorkersDone == \A w \in Workers : workerPc[w] = "done"

\* Run has built its Summary and returned it
Returned == runPc = "returned"

\* C1: when Run has built the Summary, the number of values in the success
\* histogram equals success_total.
C1_HistogramCountIsSuccessTotal ==
    Returned => BagCardinality(summary.SuccessHistogram) = summary.SuccessTotal

\* C2: when the collector has returned, the results channel and the errors
\* channel are empty.
C2_CollectorDrainsChannels ==
    collectorPc = "done" => results = <<>> /\ errorsCh = <<>>

\* C3: the Summary's TimeElapsed, TicksTimely and TicksTimelyRatio are the
\* ticker's final values: the ticker has finished when Run reads them.
C3_SummaryHasTickersFinalValues ==
    Returned =>
        /\ tickerPc = "done"
        /\ summary.TimeElapsed = elapsed
        /\ summary.TicksTimely = tk.timelyTicks
        /\ summary.TicksTimelyRatio = Ratio(tk.timelyTicks, tk.timelyTicks + tk.missedTicks)

\* the ticker is at a send of a tick on the tick channel
OfferingTick ==
    \/ tickerPc = "initialTick"
    \/ tickerPc = "sleepLoop" /\ inCh # None
    \/ tickerPc = "tightSend"

\* C4: the ticker never blocks waiting for a worker: wherever it sends a
\* tick, the first one included, it can take its step whatever the workers do.
C4_TickerNeverWaitsForWorker ==
    (~panicked /\ OfferingTick) => ENABLED Ticker

\* C5: after all workers have exited, success_total + error_total is the
\* number of Request() calls, which is timely_sends + late_sends; and each
\* worker has counted every tick it consumed once as timely or late and,
\* once its request is over, once as success or error.
C5_EveryRequestCountedOnce ==
    /\ \A w \in Workers :
          /\ local[w].timelySends + local[w].lateSends = calls[w].Request
          /\ local[w].successTotal + local[w].errorTotal =
                IF workerPc[w] = "Request" THEN calls[w].Request - 1 ELSE calls[w].Request
    /\ AllWorkersDone =>
          /\ successTotal + errorTotal = RequestCalls
          /\ RequestCalls = timelySends + lateSends

\* all workers have exited after successes and failures, timely and late sends
C5_Witness ==
    /\ AllWorkersDone
    /\ successTotal >= 1 /\ errorTotal >= 1
    /\ timelySends >= 1 /\ lateSends >= 1

\* C6: every tick the ticker generates is counted once, as timely or as
\* missed; at ticker exit timely_ticks + missed_ticks is the number of ticks
\* generated.
C6_EveryTickCountedOnce ==
    /\ tickerPc # "tightSend" => tk.timelyTicks + tk.missedTicks = generated
    /\ tickerPc = "tightSend" => tk.timelyTicks + tk.missedTicks = generated - 1
    /\ tickerPc = "done" => timelyTicks + missedTicks = generated

\* the tight ticker has finished a run with a timely and a missed tick
C6_Witness ==
    /\ tickerPc = "done"
    /\ ~UseSleepingTicker
    /\ timelyTicks >= 1 /\ missedTicks >= 1

\* C7: for a success latency L taken from the results channel the collector
\* records max(0, L - base_latency) into the histogram.
C7_RecordsClampedLatency ==
    [][(collectorPc = "running" /\ results # <<>> /\ results' = Tail(results)) =>
          successHistogram' =
              successHistogram (+) SetToBag({Max(0, Head(results) - cfg.baseLatency)})]_vars

\* a Setup() call has returned an error
SetupFailed ==
    panicked /\ \E w \in Workers : workerPc[w] = "Setup" /\ calls[w].Setup = 1

\* C8: Run terminates: with every Setup, Request and Teardown call returning
\* (Setup without error), the clock advancing and fair scheduling, Run
\* returns a Summary.
C8_RunReturnsSummary ==
    <>(Returned \/ SetupFailed)

\* C9: a Request() error never terminates the benchmark: the failed request
\* puts one Failure on the errors channel, panics nothing and leaves the
\* worker in its loop, which the worker leaves only on the closed tick channel.
C9_RequestErrorNotFatal ==
    [][\A w \in Workers :
          /\ (workerPc[w] = "Request" /\ local'[w].errorTotal = local[w].errorTotal + 1) =>
                /\ \E err \in RequestErrors : errorsCh' = Append(errorsCh, err)
                /\ results' = results
                /\ ~panicked'
                /\ workerPc'[w] = "range"
          /\ (workerPc[w] \in {"range", "tick", "Request"}
                 /\ workerPc'[w] \notin {"range", "tick", "Request"}) =>
                tickerClosed /\ workerPc[w] = "range"]_vars

\* Run has returned a Summary of a run in which every request failed
C9_Witness ==
    /\ Returned
    /\ summary.ErrorTotal >= 2 /\ summary.SuccessTotal = 0

\* C10: for each worker Setup() is called once, before any Request();
\* Teardown() is called once, after the worker's last Request() and after the
\* tick channel is closed; a Teardown() error panics nothing and the worker
\* still reports to the WaitGroup.
C10_SetupAndTeardownOnce ==
    /\ [](\A w \in Workers :
            /\ calls[w].Setup <= 1 /\ calls[w].Teardown <= 1
            /\ calls[w].Request > 0 => calls[w].Setup = 1
            /\ calls[w].Teardown = 1 => (tickerClosed /\ workerPc[w] = "done")
            /\ workerPc[w] = "done" => (calls[w].Setup = 1 /\ calls[w].Teardown = 1))
    /\ [][/\ \A w \in Workers :
                calls[w].Teardown = 1 => calls'[w].Request = calls[w].Request
          /\ teardownLogged' # teardownLogged => (~panicked' /\ wg' = wg - 1)]_vars

\* Run has returned a Summary although a Teardown() failed, after requests
C10_Witness ==
    /\ Returned
    /\ teardownLogged >= 1
    /\ RequestCalls >= 2

\* how often GetRequester was called with index i during the run
GetRequesterCalls(i) ==
    SumOver([w \in Workers |->
                Cardinality({k \in 1 .. Len(calls[w].GetRequester) :
                                calls[w].GetRequester[k] = i})], Workers)

\* C11: all Requesters are built before any worker starts: no worker has
\* called Setup() (or Request()) while a GetRequester call of the run is
\* still to come or to return.
C11_RequestersBuiltBeforeWorkersStart ==
    (\E w \in Workers : calls[w].Setup > 0 \/ calls[w].Request > 0) =>
        \A v \in Workers : Len(calls[v].GetRequester) = 1

\* C12: GetRequester is called at most once with each index of
\* 0..connections-1 and with nothing else; a worker that has started runs
\* on the Requester built for its own index; when all workers have exited
\* each index has been passed exactly once, connections calls in all.
C12_OneRequesterPerIndex ==
    /\ \A w \in Workers :
          /\ \A k \in 1 .. Len(calls[w].GetRequester) : calls[w].GetRequester[k] \in Workers
          /\ GetRequesterCalls(w) <= 1
          /\ workerPc[w] \notin {"unstarted", "GetRequester", "inGetRequester"} =>
                local[w].requester = w
          /\ (calls[w].Setup > 0 \/ calls[w].Request > 0 \/ calls[w].Teardown > 0) =>
                local[w].requester = w
    /\ AllWorkersDone =>
          /\ \A i \in Workers : GetRequesterCalls(i) = 1
          /\ SumOver([w \in Workers |-> Len(calls[w].GetRequester)], Workers) = cfg.connections

\* Run has returned after two workers, each on its own Requester, sent requests
C12_Witness ==
    /\ Returned
    /\ cfg.connections = 2
    /\ \A w \in Workers : calls[w].Request >= 1

\* text holds the literal `Expected 200-response, but got ` followed by the
\* decimal number code, and no such literal followed by a digit further left
HoldsStatusCode(text, code) ==
    \E i \in 1 .. Len(text) - 1 :
        /\ text[i] = ExpectedGot
        /\ Len(code) >= 1
        /\ i + Len(code) <= Len(text)
        /\ \A k \in 1 .. Len(code) : code[k] \in Digits /\ text[i + k] = code[k]
        /\ i + Len(code) < Len(text) => text[i + Len(code) + 1] \notin Digits
        /\ \A j \in 1 .. i - 1 : ~(text[j] = ExpectedGot /\ text[j + 1] \in Digits)

\* C13: the normalizer files an error text that holds
\* `Expected 200-response, but got <N>` under the key <N>, and every other
\* error text under itself; the Summary has no other keys.
C13_NormalizerKeys ==
    Returned =>
        /\ \A text \in DOMAIN errors :
              IF \E i \in 1 .. Len(text) - 1 : text[i] = ExpectedGot /\ text[i + 1] \in Digits
              THEN \E code \in DOMAIN summary.Errors : HoldsStatusCode(text, code)
              ELSE text \in DOMAIN summary.Errors
        /\ \A key \in DOMAIN summary.Errors :
              \E text \in DOMAIN errors : key = text \/ HoldsStatusCode(text, key)

\* the Summary of a run that failed with a 50 behind other text and with
\* "connection refused" has the keys 50 and "connection refused"
C13_Witness ==
    /\ Returned
    /\ DOMAIN errors = {<<"connection refused", ExpectedGot, "5">>, <<"connection refused">>}
    /\ DOMAIN summary.Errors = {<<"5">>, <<"connection refused">>}

\* ratio is a number between 0 and 100
IsPercentage(ratio) ==
    /\ ratio # "NaN"
    /\ 0 <= ratio[1] /\ ratio[1] <= 100 * ratio[2]

\* C14: in every Summary Run produces, TicksTimelyRatio and SendsTimelyRatio
\* are numbers in [0, 100], also when no tick was generated or accepted and
\* when no worker consumed a tick.
C14_RatiosArePercentages ==
    Returned =>
        /\ IsPercentage(summary.TicksTimelyRatio)
        /\ IsPercentage(summary.SendsTimelyRatio)

\* C15: when no file operation fails, generateLatencyDistribution returns
\* nil and the file holds the header and then one row per percentile of the
\* input (of Logarithmic when the input is nil), in input order: row i has
\* Value = ValueAtQuantile(percentiles[i]) / 1e6, Percentile =
\* percentiles[i] / 100 (both with six decimals) and TotalCount = 0.
C15_OneRowPerPercentile ==
    (distribution # NoFile /\ ~distribution.failed) =>
        LET ps == IF distribution.percentiles.isNil THEN Logarithmic
                  ELSE distribution.percentiles.elems
            file == distribution.file
        IN  /\ distribution.err = Nil
            /\ Len(file) = 1 + Len(ps)
            /\ file[1] = Header
            /\ \A i \in 1 .. Len(ps) :
                  /\ LET value == ValueAtQuantile(summary.SuccessHistogram, ps[i])
                     IN  file[i + 1].Value = <<value \div 1000000, value % 1000000>>
                  /\ file[i + 1].Percentile =
                        <<ps[i] \div (100 * PercentileUnit),
                          (ps[i] % (100 * PercentileUnit)) * (1000000 \div (100 * PercentileUnit))>>
                  /\ file[i + 1].TotalCount = 0

\* a distribution of a histogram of two values for the list 99, 0
C15_Witness ==
    /\ distribution # NoFile
    /\ ~distribution.failed
    /\ distribution.percentiles.elems = <<99000, 0>>
    /\ BagCardinality(summary.SuccessHistogram) = 2
    /\ distribution.file[2].Value = <<0, 2>> /\ distribution.file[3].Value = <<0, 0>>

\* C16: a configuration with an invalid duration (zero or negative) is
\* rejected before the run: no Requester is built, no worker starts and no
\* tick is generated for it.
C16_InvalidDurationRejected ==
    cfg.duration <= 0 =>
        /\ \A w \in Workers : workerPc[w] = "unstarted" /\ calls[w].GetRequester = <<>>
        /\ generated = 0

\* C17: the count under each key of Summary.Errors is the sum of the counts
\* of all raw error texts that normalize to that key, so the bucket counts
\* add up to the raw counts.
C17_BucketCountsAreSums ==
    Returned =>
        /\ \A key \in DOMAIN summary.Errors :
              summary.Errors[key] =
                  SumOver(errors, {text \in DOMAIN errors : ErrorKey(text) = key})
        /\ SumOver(summary.Errors, DOMAIN summary.Errors) = SumOver(errors, DOMAIN errors)

\* C18: Run signals the collector to stop only after every worker has
\* exited, its counter merge and Teardown() included; the collector never
\* returns before the stop signal; Run builds the Summary only after the
\* collector has returned.
C18_StopAfterWorkersSummaryAfterCollector ==
    /\ stopCollector =>
          /\ AllWorkersDone
          /\ \A w \in Workers : calls[w].Teardown = 1
          /\ successTotal + errorTotal = SumOver([w \in Workers |-> local[w].successTotal
                                                     + local[w].errorTotal], Workers)
    /\ collectorPc = "done" => stopCollector
    /\ runPc \in {"summarize", "returned"} => collectorPc = "done"

\* Run has returned after two workers, with successes, and the collector
\* stopped on the signal
C18_Witness ==
    /\ Returned
    /\ collectorPc = "done" /\ stopCollector
    /\ cfg.connections = 2
    /\ successTotal >= 1

\* where the ticker is while sleepingTicker runs, and while tightTicker's loop runs
SleepingPcs == {"initialTick", "sleepLoop"}
TightPcs == {"tightSpin", "tightSend"}

\* C19: tickerFunc runs the sleeping ticker if and only if forceTightTicker
\* is false and expectedInterval >= 7 x timerRes, and the tight ticker in
\* every other case; one strategy runs per Run: the ticker never changes
\* from one to the other and never starts a second time.
C19_TickerStrategy ==
    /\ [](/\ tickerPc \in SleepingPcs =>
                (~cfg.forceTightTicker /\ cfg.expectedInterval >= 7 * cfg.timerRes)
          /\ tickerPc \in TightPcs =>
                (cfg.forceTightTicker \/ cfg.expectedInterval < 7 * cfg.timerRes))
    /\ [][/\ tickerPc = "tickerFunc" => tickerPc' \in {"tickerFunc"} \cup SleepingPcs \cup TightPcs
          /\ tickerPc \in SleepingPcs => tickerPc' \notin TightPcs \cup {"tickerFunc"}
          /\ tickerPc \in TightPcs => tickerPc' \notin SleepingPcs \cup {"tickerFunc"}
          /\ tickerPc \in {"closeDone", "timelyTicks", "missedTicks", "done"} =>
                tickerPc' \notin SleepingPcs \cup TightPcs \cup {"tickerFunc"}]_vars

\* the tight ticker has run to its end although the interval allows sleeping,
\* because it was forced
C19_Witness ==
    /\ tickerPc = "done"
    /\ cfg.forceTightTicker
    /\ cfg.expectedInterval >= 7 * cfg.timerRes
    /\ tk.thisTick > tk.start

\* C20: the tight ticker does not drift: after the k-th tick it generates,
\* lastTick = start + k x expectedInterval whatever the clock read, and it
\* generates a tick only when now - lastTick >= expectedInterval.
C20_TightTickerDoesNotDrift ==
    /\ []((tickerPc \notin {"unstarted", "tickerFunc"} /\ ~UseSleepingTicker) =>
            tk.lastTick = tk.start + generated * cfg.expectedInterval)
    /\ [][(~UseSleepingTicker /\ generated' = generated + 1) =>
            /\ now - tk.lastTick >= cfg.expectedInterval
            /\ tk'.thisTick = now
            /\ tk'.lastTick = tk.lastTick + cfg.expectedInterval]_vars

\* the tight ticker has generated three ticks, one of them taken, and the
\* clock reads a time that is no tick boundary and more than lastTick
C20_Witness ==
    /\ ~UseSleepingTicker
    /\ generated >= 3
    /\ tk.timelyTicks >= 1
    /\ tk.thisTick > tk.lastTick
    /\ (tk.thisTick - tk.start) % cfg.expectedInterval # 0

\* the place of key in the order in which summarize inserted the keys
InsertedAt(key) == CHOOSE i \in 1 .. Len(errorTable.inserted) : errorTable.inserted[i] = key

\* C21: in the error table the buckets are in descending order of count,
\* and buckets of equal count are in the order of their insertion.
C21_ErrorTableSortedStable ==
    errorTable.printed =>
        \A i, j \in 1 .. Len(errorTable.rows) :
            i < j =>
                /\ errorTable.rows[i].Count >= errorTable.rows[j].Count
                /\ errorTable.rows[i].Count = errorTable.rows[j].Count =>
                      InsertedAt(errorTable.rows[i].ErrorCode)
                          < InsertedAt(errorTable.rows[j].ErrorCode)

\* C22: the success histogram and the errors map are the collector's alone
\* while it runs: a step that changes either is a step of the running
\* collector taking a sample or an error from its channel, no step of a
\* worker or of the ticker changes them, and Run reads them, for the
\* Summary, only after the collector has returned.
C22_CollectorOwnsHistogramAndErrors ==
    [][/\ (successHistogram' # successHistogram \/ errors' # errors) =>
             /\ collectorPc = "running" /\ collectorPc' = "running"
             /\ \/ results # <<>> /\ results' = Tail(results)
                \/ errorsCh # <<>> /\ errorsCh' = Tail(errorsCh)
             /\ workerPc' = workerPc /\ local' = local
             /\ tickerPc' = tickerPc /\ tk' = tk
             /\ runPc' = runPc
       /\ (runPc' = "summarize" \/ summary' # summary) => collectorPc = "done"]_vars

\* Run has returned a Summary with a recorded sample and a counted error
C22_Witness ==
    /\ Returned
    /\ BagCardinality(summary.SuccessHistogram) >= 1
    /\ DOMAIN summary.Errors # {}

\* the workers that hold a received tick and have not yet called Request()
HoldingTick == {w \in Workers : workerPc[w] = "tick"}

\* C23: every tick the ticker counts as timely is received by exactly one
\* worker and leads to exactly one Request() call, and no Request() is
\* called without such a tick: the ticker's count is the number of
\* Request() calls plus the ticks received and not yet sent, a step that
\* counts a tick hands it to exactly one worker, a step that calls Request()
\* uses up the tick of its worker; and once the ticker and every worker
\* have finished, timely_ticks = timely_sends + late_sends.
C23_TimelyTicksAreRequests ==
    /\ [](/\ tk.timelyTicks = RequestCalls + Cardinality(HoldingTick)
          /\ (tickerPc = "done" /\ AllWorkersDone) =>
                /\ timelyTicks = timelySends + lateSends
                /\ timelyTicks = RequestCalls)
    /\ [][/\ tk'.timelyTicks \in {tk.timelyTicks, tk.timelyTicks + 1}
          /\ tk'.timelyTicks = tk.timelyTicks + 1 =>
                \E w \in HoldingTick' \ HoldingTick :
                    /\ HoldingTick' = HoldingTick \cup {w}
                    /\ workerPc[w] = "range"
          /\ \A w \in Workers :
                /\ calls'[w].Request \in {calls[w].Request, calls[w].Request + 1}
                /\ calls'[w].Request = calls[w].Request + 1 =>
                      /\ w \in HoldingTick
                      /\ HoldingTick' = HoldingTick \ {w}
                      /\ tk' = tk]_vars

\* the ticker and both workers have finished, after a timely and a late send
C23_Witness ==
    /\ tickerPc = "done"
    /\ AllWorkersDone
    /\ cfg.connections = 2
    /\ timelyTicks >= 2
    /\ timelySends >= 1
    /\ lateSends >= 1

\* the Request() calls of worker w whose sample it has not yet emitted
Outstanding(w) == calls[w].Request - (local[w].successTotal + local[w].errorTotal)

\* C24: the load is closed-loop: each worker has at most one Request()
\* outstanding, and only while it is inside Request() or about to emit its
\* sample, so the requests in flight never exceed connections; and a worker
\* receives a tick only when the sample of each of its requests has been
\* emitted.
C24_ClosedLoop ==
    /\ [](/\ \A w \in Workers :
                /\ Outstanding(w) \in {0, 1}
                /\ Outstanding(w) = 1 <=> workerPc[w] = "Request"
          /\ SumOver([w \in Workers |-> Outstanding(w)], Workers) <= cfg.connections)
    /\ [][\A w \in Workers :
              (workerPc[w] # "tick" /\ workerPc'[w] = "tick") =>
                  /\ workerPc[w] = "range"
                  /\ Outstanding(w) = 0
                  /\ Len(results) + Len(errorsCh) + BagCardinality(successHistogram)
                         + SumOver(errors, DOMAIN errors) >= calls[w].Request]_vars

\* with two connections, a worker is inside its second Request(), the
\* sample of its first one emitted
C24_Witness ==
    /\ cfg.connections = 2
    /\ \E w \in Workers :
          /\ workerPc[w] = "Request"
          /\ calls[w].Request = 2
          /\ local[w].successTotal + local[w].errorTotal = 1

\* the workers whose goroutine is inside the factory's GetRequester
InGetRequester == {w \in Workers : workerPc[w] = "inGetRequester"}

\* C25: the GetRequester calls of a run never overlap: at most one of them
\* is in progress in any state, so no two goroutines are at the factory's
\* fields at once.
C25_GetRequesterCallsNeverOverlap == Cardinality(InGetRequester) <= 1
====
